---- MODULE Spec2Model ----
(***************************************************************************)
(* The task registry and download pipeline of the iPod music server        *)
(* (src/server.py) driving SongScraper (src/scraper.py).                   *)
(*                                                                         *)
(* One request = one background thread.  Every registry write that the     *)
(* code makes as a separate statement under progress_lock is a separate    *)
(* step, because api_progress reads the record's fields AFTER it released  *)
(* the lock and so can see the registry between two such statements.       *)
(* External programs (spotdl, yt-dlp, ffmpeg) are nondeterministic: they   *)
(* raise, return without output, or write a file into the shared output    *)
(* directory.                                                              *)
(***************************************************************************)
EXTENDS Integers, Sequences, FiniteSets, TLC

\* ---------------------------------------------------------------- bounds
MaxReq   == 2   \* download / search-download requests
MaxClock == 1   \* readings of time.time()*1000 are 0..MaxClock
MaxBytes == 2   \* downloaded_bytes of a progress event is at most this
MaxTotal == 1   \* total_bytes / total_bytes_estimate is at most this; 0 = absent
MaxNames == 1   \* distinct output file names
MaxPolls == 1   \* GET /api/progress requests (PollSpec)
MaxPollReq == 1 \* download / search-download requests beside a poller (PollSpec)

Requests == 1..MaxReq
Ids      == 0..MaxClock
Names    == 1..MaxNames

VARIABLES
    clock,           \* int(time.time() * 1000)
    download_tasks,  \* the registry: task_id -> record (a dict: its DOMAIN are the keys)
    progress_lock,   \* 0 = free, else the request whose thread holds it
    th,              \* per request: its thread's position and locals
    dir,             \* DOWNLOADS_DIR: the *.mp3 files, oldest modification first
    poll,            \* the api_progress handler: position and the values it has read
    response,        \* the last response api_progress returned
    call             \* one call of a function or handler that starts no thread:
                     \* its arguments, what the outside world answers, its outcome

vars == <<clock, download_tasks, progress_lock, th, dir, poll, response, call>>

\* No such call is in progress (the specifications of the task registry).
NoCall == [op |-> "none"]

\* ------------------------------------------------------------ directory
\* A file of DOWNLOADS_DIR: its name, and (history) who wrote it: the
\* request `by` (0: it was there before the server started) with provider `prov`.
File(n, t, p) == [name |-> n, by |-> t, prov |-> p]

FileNames(d) == {d[i].name : i \in 1..Len(d)}

\* A provider writes (or overwrites) file n: it becomes the newest file.
WriteFile(d, n, t, p) ==
    SelectSeq(d, LAMBDA f : f.name # n) \o <<File(n, t, p)>>

\* max(files, key=st_mtime) over the files whose name is in S; <<>> is None.
Newest(d, S) ==
    LET c == SelectSeq(d, LAMBDA f : f.name \in S)
    IN  IF Len(c) = 0 THEN <<>> ELSE <<c[Len(c)]>>

find_mp3(d) == Newest(d, FileNames(d))

\* ------------------------------------------------------------- registry
Put(tasks, id, rec) ==
    [k \in DOMAIN tasks \cup {id} |-> IF k = id THEN rec ELSE tasks[k]]

\* rec[k] = v on a dict: the key is added when the dict does not have it.
SetKey(rec, k, v) ==
    [f \in DOMAIN rec \cup {k} |-> IF f = k THEN v ELSE rec[f]]

Terminal(s) == s \in {"done", "error"}

\* pct = int((downloaded / total * 100)) if total > 0 else 0
\* (for the byte counts of this model the float product has no rounding case)
Pct(downloaded, total) ==
    IF total > 0 THEN (downloaded * 100) \div total ELSE 0

\* What api_progress renders from a record read at one single moment.
Render(rec) ==
    [code    |-> 200,
     status  |-> rec.status,
     percent |-> rec.percent,
     result  |-> IF rec.status = "done" THEN rec.result ELSE <<>>,
     error   |-> IF rec.status = "error" THEN <<rec.error>> ELSE <<>>]

\* The poller holds a reference to the dict it looked up.  A request that
\* stores a NEW dict under the same key leaves the poller with the old one,
\* which nobody writes any more.
Frozen(id) ==
    IF poll.pc # "idle" /\ poll.id = id /\ poll.task = <<>> /\ id \in DOMAIN download_tasks
    THEN [poll EXCEPT !.task = <<download_tasks[id]>>]
    ELSE poll

\* A writer releases the lock: the record is again at a moment between two
\* complete updates, which a poll in flight could have been served from.
Seen(id, rec) ==
    IF poll.pc # "idle" /\ poll.id = id /\ poll.task = <<>>
    THEN [poll EXCEPT !.snaps = @ \cup {Render(rec)}]
    ELSE poll

\* -------------------------------------------------------------- threads
\* Locals of a request's thread.  spot and ytwrote are history: how the
\* catalog provider's run ended ("raised": _download_spotdl raised; "failed":
\* it returned after a non-zero exit or without an output file; "ok": exit 0
\* and an output file), and whether yt-dlp's run wrote its output file.
\* url is the URL download() was called with ("none" outside download()).
\* Locals are reset once the code no longer reads them.
NoThread ==
    [pc |-> "new", kind |-> "none", task_id |-> 0, url |-> "none",
     before |-> {}, downloaded |-> 0, total |-> 0, pct |-> 0,
     mp3_path |-> <<>>,
     exc |-> "none", spot |-> "none", ytwrote |-> FALSE]

Ended(t) == [NoThread EXCEPT !.pc = "end", !.task_id = th[t].task_id]

Init ==
    /\ clock = 0
    /\ download_tasks = <<>>
    /\ progress_lock = 0
    /\ th = [t \in Requests |-> NoThread]
    /\ dir \in {<<>>, <<File(1, 0, "old")>>}
    /\ poll = [pc |-> "idle", id |-> 0, task |-> <<>>, status |-> "none",
               percent |-> 0, n |-> 0, snaps |-> {}]
    /\ response = [code |-> 0]
    /\ call = NoCall

\* Time passes.  The clock is only ever read by an arriving request: the
\* first one reads 0, and after the last one the reading no longer matters.
Tick ==
    /\ clock < MaxClock
    /\ clock \in DOMAIN download_tasks
    /\ \E t \in Requests : th[t].pc = "new"
    /\ clock' = clock + 1
    /\ UNCHANGED <<call, download_tasks, progress_lock, th, dir, poll, response>>

\* Requests are numbered in the order they arrive.
Arrives(t) ==
    /\ th[t].pc = "new"
    /\ IF t = 1 THEN TRUE ELSE th[t - 1].pc # "new"

\* is_spotify = "spotify.com" in url or "open.spotify" in url
DownloadEntry(u) == IF u = "spotify" THEN "sp_before" ELSE "yt_run"

\* POST /api/download with a url: the record is stored and the thread started.
api_download(t, u) ==
    /\ Arrives(t)
    /\ progress_lock = 0
    /\ download_tasks' = Put(download_tasks, clock,
           [status |-> "downloading", percent |-> 0,
            title |-> [req |-> t, src |-> "hint"],
            result |-> <<>>, error |-> <<>>])
    /\ th' = [th EXCEPT ![t].pc = DownloadEntry(u), ![t].kind = "download",
                        ![t].task_id = clock, ![t].url = u]
    /\ poll' = Frozen(clock)
    /\ UNCHANGED <<call, clock, progress_lock, dir, response>>

\* POST /api/search-download with a query.
api_search_download(t) ==
    /\ Arrives(t)
    /\ progress_lock = 0
    /\ download_tasks' = Put(download_tasks, clock,
           [status |-> "searching", percent |-> 0,
            title |-> [req |-> t, src |-> "query"],
            result |-> <<>>, error |-> <<>>, search_result |-> <<>>])
    /\ th' = [th EXCEPT ![t].pc = "search", ![t].kind = "search",
                        ![t].task_id = clock]
    /\ poll' = Frozen(clock)
    /\ UNCHANGED <<call, clock, progress_lock, dir, response>>

\* metadata = scraper.search(query) raises: LookupError (no results), or any
\* other exception of the fallback search.
search_raises(t) ==
    /\ th[t].pc = "search"
    /\ \E e \in {"LookupError", "Exception"} :
            th' = [th EXCEPT ![t].pc = "err", ![t].exc = e]
    /\ UNCHANGED <<call, clock, download_tasks, progress_lock, dir, poll, response>>

\* metadata = scraper.search(query) returns a track, with a catalog or a
\* media URL, and then, with progress_lock:
\*   status = "downloading"; search_result = metadata; title = metadata title
\* (the return itself changes nothing another thread can see, so it is one
\* step with the locked block that follows it)
search_returns(t, u) ==
    LET id  == th[t].task_id
        rec == SetKey([download_tasks[id] EXCEPT !.status = "downloading",
                           !.title = [req |-> t, src |-> "meta"]],
                      "search_result", <<[req |-> t]>>)
    IN  /\ th[t].pc = "search"
        /\ progress_lock = 0
        /\ download_tasks' = [download_tasks EXCEPT ![id] = rec]
        /\ th' = [th EXCEPT ![t].pc = DownloadEntry(u), ![t].url = u]
        /\ poll' = Seen(id, rec)
        /\ UNCHANGED <<call, clock, progress_lock, dir, response>>

\* _progress_hook, first statement under the lock: the status.
\* (d, total, p: the event's downloaded_bytes, its total_bytes or
\* total_bytes_estimate, 0 if it has none, and the pct computed from them)
hook_status(t, from, to, s, d, total, p) ==
    LET id == th[t].task_id
    IN  /\ th[t].pc = from
        /\ progress_lock = 0
        /\ progress_lock' = t
        /\ download_tasks' = [download_tasks EXCEPT ![id].status = s]
        /\ th' = [th EXCEPT ![t].pc = to, ![t].pct = p, ![t].downloaded = d,
                            ![t].total = total]
        /\ UNCHANGED <<call, clock, dir, poll, response>>

\* A hook that returns without releasing the lock.
hook_percent_keeps_lock(t, from, to) ==
    LET id  == th[t].task_id
        rec == [download_tasks[id] EXCEPT !.percent = th[t].pct]
    IN  /\ th[t].pc = from
        /\ progress_lock = t
        /\ download_tasks' = [download_tasks EXCEPT ![id] = rec]
        /\ th' = [th EXCEPT ![t].pc = to, ![t].pct = 0, ![t].total = 0]
        /\ poll' = Seen(id, rec)
        /\ UNCHANGED <<call, clock, progress_lock, dir, response>>

\* _progress_hook, second statement: the percent; the lock is released.
hook_percent(t, from, to) ==
    LET id  == th[t].task_id
        rec == [download_tasks[id] EXCEPT !.percent = th[t].pct]
    IN  /\ th[t].pc = from
        /\ progress_lock = t
        /\ progress_lock' = 0
        /\ download_tasks' = [download_tasks EXCEPT ![id] = rec]
        /\ th' = [th EXCEPT ![t].pc = to, ![t].pct = 0, ![t].total = 0]
        /\ poll' = Seen(id, rec)
        /\ UNCHANGED <<call, clock, dir, response>>

\* ----------------------------------------------- SongScraper.download
\* _download_spotdl: before = set(output_dir.glob("*.mp3"))
spotdl_before(t) ==
    /\ th[t].pc = "sp_before"
    /\ th' = [th EXCEPT ![t].pc = "sp_hook", ![t].before = FileNames(dir)]
    /\ UNCHANGED <<call, clock, download_tasks, progress_lock, dir, poll, response>>

\* progress_hook({"status": "downloading", "downloaded_bytes": 0, "total_bytes": 100})
spotdl_hook_downloading(t) ==
    \/ hook_status(t, "sp_hook", "sp_hook_b", "downloading", 0, 100, Pct(0, 100))
    \/ hook_percent(t, "sp_hook_b", "sp_run")

\* A download() without the try around _download_spotdl: what the run
\* raises leaves download().
spotdl_run_uncaught(t) ==
    /\ th[t].pc = "sp_run"
    /\ \E out \in {"raised", "failed", "ok"}, w \in {0} \cup Names :
         /\ out = "ok" => w # 0
         /\ dir' = IF w = 0 THEN dir ELSE WriteFile(dir, w, t, "spotdl")
         /\ th' = IF out = "raised"
                  THEN [th EXCEPT ![t].pc = "err", ![t].exc = "Exception",
                                  ![t].before = {}]
                  ELSE [th EXCEPT ![t].pc = "sp_fin", ![t].spot = out]
    /\ UNCHANGED <<call, clock, download_tasks, progress_lock, poll, response>>

\* subprocess.run(cmd, timeout=120): it raises (timeout, spotdl missing), or
\* returns with any exit code, which the code does not look at; either way
\* the run may or may not have written an .mp3.  A raise is caught by
\* download(), which goes on to _download_ytdlp.
spotdl_run(t) ==
    /\ th[t].pc = "sp_run"
    /\ \E out \in {"raised", "failed", "ok"}, w \in {0} \cup Names :
         /\ out = "ok" => w # 0
         /\ dir' = IF w = 0 THEN dir ELSE WriteFile(dir, w, t, "spotdl")
         /\ th' = IF out = "raised"
                  THEN [th EXCEPT ![t].pc = "yt_run", ![t].spot = out,
                                  ![t].before = {}]
                  ELSE [th EXCEPT ![t].pc = "sp_fin", ![t].spot = out]
    /\ UNCHANGED <<call, clock, download_tasks, progress_lock, poll, response>>

\* progress_hook({"status": "finished"})
spotdl_hook_finished(t) ==
    \/ hook_status(t, "sp_fin", "sp_fin_b", "converting", 0, 0, 100)
    \/ hook_percent(t, "sp_fin_b", "sp_locate")

\* after - before, else _find_mp3; FileNotFoundError when there is no .mp3
\* at all, which download() catches and falls back on.
spotdl_locate(t) ==
    LET new == FileNames(dir) \ th[t].before
        got == IF new # {} THEN Newest(dir, new) ELSE find_mp3(dir)
    IN  /\ th[t].pc = "sp_locate"
        /\ th' = IF got = <<>>
                 THEN [th EXCEPT ![t].pc = "yt_run", ![t].spot = "raised",
                                 ![t].before = {}]
                 ELSE [th EXCEPT ![t].pc = "done", ![t].mp3_path = got,
                                 ![t].before = {}]
        /\ UNCHANGED <<call, clock, download_tasks, progress_lock, dir, poll, response>>

\* _download_ytdlp: yt-dlp calls the hook with "downloading" events whose
\* downloaded_bytes grow; total_bytes / total_bytes_estimate may be absent (0).
ytdlp_hook_downloading(t) ==
    \/ \E d \in (th[t].downloaded + 1)..MaxBytes, total \in 0..MaxTotal :
         hook_status(t, "yt_run", "yt_hook_b", "downloading", d, total, Pct(d, total))
    \/ hook_percent(t, "yt_hook_b", "yt_run")

\* yt-dlp reports the transfer finished; ffmpeg converts after that.
ytdlp_hook_finished(t) ==
    \/ hook_status(t, "yt_run", "yt_fin_b", "converting", 0, 0, 100)
    \/ hook_percent(t, "yt_fin_b", "yt_post")

\* ydl.extract_info(url, download=True) raises (DownloadError, ...), before
\* or after the transfer.  Every exception that is no LookupError takes the
\* same except clause and is told apart only by its message: "Exception".
ytdlp_raises(t) ==
    /\ th[t].pc \in {"yt_run", "yt_post"}
    /\ th' = [th EXCEPT ![t].pc = "err", ![t].exc = "Exception",
                        ![t].downloaded = 0, ![t].spot = "none",
                        ![t].url = "none"]
    /\ UNCHANGED <<call, clock, download_tasks, progress_lock, dir, poll, response>>

\* extract_info returns: the postprocessors have written "<title>.mp3", or
\* nothing (the code itself expects "appeared to succeed but no .mp3").
ytdlp_returns(t) ==
    /\ th[t].pc = "yt_post"
    /\ \E w \in {0} \cup Names :
         /\ dir' = IF w = 0 THEN dir ELSE WriteFile(dir, w, t, "ytdlp")
         /\ th' = [th EXCEPT ![t].pc = "yt_find", ![t].ytwrote = (w # 0)]
    /\ UNCHANGED <<call, clock, download_tasks, progress_lock, poll, response>>

\* mp3_path = self._find_mp3(output_dir, title); None raises FileNotFoundError
ytdlp_find(t) ==
    LET got == find_mp3(dir)
    IN  /\ th[t].pc = "yt_find"
        /\ th' = IF got = <<>>
                 THEN [th EXCEPT ![t].pc = "err", ![t].exc = "Exception",
                                 ![t].spot = "none", ![t].ytwrote = FALSE,
                                 ![t].url = "none"]
                 ELSE [th EXCEPT ![t].pc = "done", ![t].mp3_path = got]
        /\ UNCHANGED <<call, clock, download_tasks, progress_lock, dir, poll, response>>

\* ------------------------------------------------ completion and failure
\* The result stored for a finished task; by/prov are the history of the
\* file mp3_path named when it was located.
Result(t) ==
    [filename |-> th[t].mp3_path[1].name,
     title    |-> [req |-> t, src |-> IF th[t].kind = "search" THEN "meta" ELSE "hint"],
     by       |-> th[t].mp3_path[1].by,
     prov     |-> th[t].mp3_path[1].prov]

\* with progress_lock: status = "done"; percent = 100; result = {...}
complete(t) ==
    LET id == th[t].task_id
    IN  \/ /\ th[t].pc = "done"
           /\ progress_lock = 0
           /\ progress_lock' = t
           /\ download_tasks' = [download_tasks EXCEPT ![id].status = "done"]
           /\ th' = [th EXCEPT ![t].pc = "done_b", ![t].spot = "none",
                               ![t].ytwrote = FALSE, ![t].url = "none"]
           /\ UNCHANGED <<call, clock, dir, poll, response>>
        \/ /\ th[t].pc = "done_b"
           /\ download_tasks' = [download_tasks EXCEPT ![id].percent = 100]
           /\ th' = [th EXCEPT ![t].pc = "done_c"]
           /\ UNCHANGED <<call, clock, progress_lock, dir, poll, response>>
        \/ /\ th[t].pc = "done_c"
           /\ progress_lock' = 0
           /\ download_tasks' = [download_tasks EXCEPT ![id].result = <<Result(t)>>]
           /\ th' = [th EXCEPT ![t] = Ended(t)]
           /\ poll' = Seen(id, download_tasks'[id])
           /\ UNCHANGED <<call, clock, dir, response>>

\* str(e), or f"Not found: {e}" in the search-download thread's LookupError clause
ErrorMessage(t) ==
    IF th[t].kind = "search" /\ th[t].exc = "LookupError"
    THEN "Not found" ELSE th[t].exc

\* (a handler that lets the exception escape the thread, for C6)
fail_escapes(t) ==
    /\ th[t].pc = "err"
    /\ th' = [th EXCEPT ![t] = Ended(t)]
    /\ UNCHANGED <<call, clock, download_tasks, progress_lock, dir, poll, response>>

\* except ...: with progress_lock: status = "error"; error = message
fail(t) ==
    LET id == th[t].task_id
    IN  \/ /\ th[t].pc = "err"
           /\ progress_lock = 0
           /\ progress_lock' = t
           /\ download_tasks' = [download_tasks EXCEPT ![id].status = "error"]
           /\ th' = [th EXCEPT ![t].pc = "err_b"]
           /\ UNCHANGED <<call, clock, dir, poll, response>>
        \/ /\ th[t].pc = "err_b"
           /\ progress_lock' = 0
           /\ download_tasks' = [download_tasks EXCEPT ![id].error = <<ErrorMessage(t)>>]
           /\ th' = [th EXCEPT ![t] = Ended(t)]
           /\ poll' = Seen(id, download_tasks'[id])
           /\ UNCHANGED <<call, clock, dir, response>>

\* -------------------------------------------------- GET /api/progress/<id>
\* The dict the handler's variable `task` refers to.
Task == IF poll.task = <<>> THEN download_tasks[poll.id] ELSE poll.task[1]

\* jsonify(response).  atomic (history): the response is what the handler
\* would have rendered from the record as it stood at one moment of the poll.
Respond(r) ==
    /\ response' = [code |-> r.code, status |-> r.status, percent |-> r.percent,
                    result |-> r.result, error |-> r.error,
                    atomic |-> r \in poll.snaps]
    /\ poll' = [poll EXCEPT !.pc = "idle", !.n = @ + 1, !.task = <<>>,
                            !.status = "none", !.percent = 0, !.snaps = {}]

\* with progress_lock: task = download_tasks.get(task_id); 404 if not task
api_progress_get(id) ==
    /\ poll.pc = "idle"
    /\ poll.n < MaxPolls
    /\ progress_lock = 0
    /\ IF id \in DOMAIN download_tasks
       THEN /\ poll' = [poll EXCEPT !.pc = "status", !.id = id,
                            !.snaps = {Render(download_tasks[id])}]
            /\ response' = [code |-> 0]
       ELSE /\ poll' = [poll EXCEPT !.n = @ + 1, !.id = id, !.snaps = {}]
            /\ response' = [code |-> 404]
    /\ UNCHANGED <<call, clock, download_tasks, progress_lock, th, dir>>

\* response = {"status": task["status"], "percent": task["percent"]}
\* then: if task["status"] == "done" and task["result"]: ...
\*       elif task["status"] == "error": ...
\* Every task[...] is a read of its own, made without the lock.
api_progress_read ==
    /\ \/ /\ poll.pc = "status"
          /\ poll' = [poll EXCEPT !.pc = "percent", !.status = Task.status]
          /\ UNCHANGED response
       \/ /\ poll.pc = "percent"
          /\ poll' = [poll EXCEPT !.pc = "if_done", !.percent = Task.percent]
          /\ UNCHANGED response
       \/ /\ poll.pc = "if_done"
          /\ poll' = [poll EXCEPT !.pc = IF Task.status = "done" THEN "result" ELSE "elif"]
          /\ UNCHANGED response
       \/ /\ poll.pc = "result"
          /\ IF Task.result # <<>>
             THEN Respond([code |-> 200, status |-> poll.status,
                           percent |-> poll.percent, result |-> Task.result,
                           error |-> <<>>])
             ELSE poll' = [poll EXCEPT !.pc = "elif"] /\ UNCHANGED response
       \/ /\ poll.pc = "elif"
          /\ IF Task.status = "error"
             THEN poll' = [poll EXCEPT !.pc = "error"] /\ UNCHANGED response
             ELSE Respond([code |-> 200, status |-> poll.status,
                           percent |-> poll.percent, result |-> <<>>,
                           error |-> <<>>])
       \/ /\ poll.pc = "error"
          /\ Respond([code |-> 200, status |-> poll.status,
                      percent |-> poll.percent, result |-> <<>>,
                      error |-> <<Task.error>>])
    /\ UNCHANGED <<call, clock, download_tasks, progress_lock, th, dir>>

\* ------------------------------------------------------- specification
\* One step of request t's background thread (_do_download or
\* _do_search_download, with everything it calls).
Thread(t) ==
    \/ search_raises(t)
    \/ \E u \in {"spotify", "youtube"} : search_returns(t, u)
    \/ spotdl_before(t)
    \/ spotdl_hook_downloading(t)
    \/ spotdl_run(t)
    \/ spotdl_hook_finished(t)
    \/ spotdl_locate(t)
    \/ ytdlp_hook_downloading(t)
    \/ ytdlp_hook_finished(t)
    \/ ytdlp_raises(t)
    \/ ytdlp_returns(t)
    \/ ytdlp_find(t)
    \/ complete(t)
    \/ fail(t)

\* The requests and their threads, nobody polling.
Next ==
    \/ Tick
    \/ \E t \in Requests, u \in {"spotify", "youtube"} : api_download(t, u)
    \/ \E t \in Requests : api_search_download(t)
    \/ \E t \in Requests : Thread(t)

Spec == Init /\ [][Next]_vars

\* Fewer requests, and a client polling them.
PollNext ==
    \/ Tick
    \/ \E t \in 1..MaxPollReq, u \in {"spotify", "youtube"} : api_download(t, u)
    \/ \E t \in 1..MaxPollReq : api_search_download(t)
    \/ \E t \in 1..MaxPollReq : Thread(t)
    \/ \E id \in Ids : api_progress_get(id)
    \/ api_progress_read

PollSpec == Init /\ [][PollNext]_vars

\* Threads are scheduled fairly and every external call returns or raises.
FairSpec == Spec /\ \A t \in Requests : WF_vars(Thread(t))

\* ===================================================================
\* Claims
\* ===================================================================
Started(t) == th[t].pc # "new"

\* The registry record under the identifier request t was given.
Record(t) == download_tasks[th[t].task_id]

\* Another request was given the same identifier.
IdShared(id) ==
    \E a, b \in Requests :
        a # b /\ Started(a) /\ Started(b) /\ th[a].task_id = id /\ th[b].task_id = id

\* Request t's thread takes this step.
Steps(t) == Started(t) /\ th'[t] # th[t]

\* C3: every request that creates a task gets an identifier that no other
\* task has, also when two requests arrive at the same clock reading.
\* (Entries are never removed, so a reused identifier is an overwritten record.)
C3_FreshIdentifier ==
    \A a, b \in Requests :
        (a # b /\ Started(a) /\ Started(b)) => th[a].task_id # th[b].task_id

\* C1: once a record has status done or error, no later step of any request
\* (creation, progress update, finished signal, completion, failure) changes
\* its status.
C1_TerminalAbsorbing ==
    [][\A id \in DOMAIN download_tasks :
          Terminal(download_tasks[id].status)
              => download_tasks'[id].status = download_tasks[id].status]_vars

\* C1, as far as the code keeps it: the same, for identifiers given to one
\* request only.
C1_AbsorbingWhileIdUnshared ==
    [][\A id \in DOMAIN download_tasks :
          (Terminal(download_tasks[id].status) /\ ~IdShared(id)')
              => download_tasks'[id].status = download_tasks[id].status]_vars

Rank(s) ==
    CASE s = "searching"   -> 0
      [] s = "downloading" -> 1
      [] s = "converting"  -> 2
      [] s = "done"        -> 3
      [] OTHER             -> 4

Forward(a, b) ==
    \/ a = b
    \/ b = "error" /\ ~Terminal(a)
    \/ b # "error" /\ a # "error" /\ Rank(a) < Rank(b)

\* C2: no step of a task's thread moves the stored status backwards along
\* searching -> downloading -> converting -> done (error: from a non-terminal
\* status only).  Stated for a task whose identifier no other request shares,
\* so that a failure is one of that task's own pipeline.
C2_StatusOnlyForward ==
    [][\A t \in Requests :
          (Steps(t) /\ ~IdShared(th[t].task_id))
              => Forward(Record(t).status, download_tasks'[th[t].task_id].status)]_vars

\* C4: no step of request b's pipeline (progress hook, completion, failure)
\* writes a field of the record that another request a was given.
C4_TasksIsolated ==
    [][\A a, b \in Requests :
          (a # b /\ Started(a) /\ Steps(b))
              => download_tasks'[th[a].task_id] = download_tasks[th[a].task_id]]_vars

\* C4, as far as the code keeps it: the same, when a's identifier is not b's.
C4_IsolatedWhileIdUnshared ==
    [][\A a, b \in Requests :
          (a # b /\ Started(a) /\ Steps(b) /\ th[a].task_id # th[b].task_id)
              => download_tasks'[th[a].task_id] = download_tasks[th[a].task_id]]_vars

\* C5: every poll response is the record as it stood at one single moment
\* between two complete registry updates; a response with status done carries
\* percent 100 and a result.
C5_PollIsAtomicSnapshot ==
    response.code = 200 =>
        /\ response.atomic
        /\ response.status = "done" =>
               (response.percent = 100 /\ response.result # <<>>)

\* C6: with fair scheduling and providers that return or raise, every
\* started task eventually has status done or error, and every exception in
\* a task's pipeline ends in status error with an error message.
C6_EveryTaskTerminates ==
    \A t \in Requests :
        /\ Started(t) ~> (Started(t) /\ Terminal(Record(t).status))
        /\ (th[t].pc = "err")
              ~> (Started(t) /\ Record(t).status = "error" /\ Record(t).error # <<>>)

\* C6's case: a thread whose pipeline raised has ended, and its record is in
\* status error with the message.
C6_Witness ==
    \E t \in Requests :
        /\ th[t].pc = "end"
        /\ Record(t).status = "error"
        /\ Record(t).error = <<"Exception">>
        /\ Record(t).title.req = t

\* C7: while the status is downloading, the stored percent never decreases
\* under progress updates whose downloaded_bytes increase (the model's
\* providers emit no others), whatever total each carries.
C7_PercentNeverDecreases ==
    [][\A t \in Requests :
          (/\ Steps(t)
           /\ ~IdShared(th[t].task_id)
           /\ Record(t).status = "downloading"
           /\ download_tasks'[th[t].task_id].status = "downloading")
              => download_tasks'[th[t].task_id].percent >= Record(t).percent]_vars

\* C8: download() never returns a file as the catalog provider's result when
\* that provider's run failed or produced no output file.
C8_NoResultFromFailedCatalogRun ==
    \A t \in Requests : th[t].pc = "done" => th[t].spot # "failed"

\* C9: when the first provider raised and the second provider's run wrote
\* its file, the file download() returns (which the task then records as its
\* result) is the one the second provider's run wrote.
C9_FallbackFileFromSecondProvider ==
    \A t \in Requests :
        (th[t].pc = "done" /\ th[t].spot = "raised" /\ th[t].ytwrote)
            => (th[t].mp3_path[1].by = t /\ th[t].mp3_path[1].prov = "ytdlp")

\* C10: the file recorded as a done task's result is never a file that a
\* different task wrote.
C10_ArtifactOfProducingTask ==
    \A id \in DOMAIN download_tasks :
        (download_tasks[id].status = "done" /\ download_tasks[id].result # <<>>)
            => download_tasks[id].result[1].by
                   \notin (Requests \ {download_tasks[id].result[1].title.req})

\* ====================================================================
\* SongScraper.search, _search_ytmusic, search_and_download
\* ====================================================================
\* The variables of the task registry; a call that starts no thread leaves
\* all of them alone.
server == <<clock, download_tasks, progress_lock, th, dir, poll, response>>

\* The server has served no request yet.
Quiet ==
    /\ clock = 0
    /\ download_tasks = <<>>
    /\ progress_lock = 0
    /\ th = [t \in Requests |-> NoThread]
    /\ dir = <<>>
    /\ poll = [pc |-> "idle", id |-> 0, task |-> <<>>, status |-> "none",
               percent |-> 0, n |-> 0, snaps |-> {}]
    /\ response = [code |-> 0]

MaxEntries == 2      \* entries of one search result list are at most this many

MAX_DURATION == 900  \* SongScraper.MAX_DURATION, "15 minutes"
TypicalMin == 90     \* 90 <= (entry.get("duration") or 0) <= 420
TypicalMax == 420

\* Durations a provider reports; 0 is also what a missing duration counts as
\* (entry.get("duration") or 0).
Durations == {0, TypicalMin, TypicalMax, TypicalMax + 1, MAX_DURATION + 1}

Titles == {"Song X", "Song X (Official Audio)", "Song X (Live)"}

\* An entry of info["entries"] is None (<<>>) or a dict (<<e>>); the id of
\* an entry is its place in the list.
Entry(i) ==
    {<<>>} \cup {<<[id |-> i, title |-> tt, duration |-> d]>> :
                    tt \in Titles, d \in Durations}

EntryLists ==
    UNION {{es \in [1..n -> UNION {Entry(i) : i \in 1..n}] :
               \A i \in 1..n : es[i] \in Entry(i)} : n \in 0..MaxEntries}

\* What a call does: it returns a value or raises an exception.
Return(v) == [kind |-> "return", exc |-> "", value |-> <<v>>]
Raise(e)  == [kind |-> "raise", exc |-> e, value |-> <<>>]
Pending   == [kind |-> "pending", exc |-> "", value |-> <<>>]

\* The dict _search_ytmusic builds from the entry it chose.
YtTrack(e) ==
    [source |-> "ytmusic", id |-> e.id, title |-> e.title,
     duration |-> e.duration, spotify_url |-> ""]

\* The dict search builds from spotdl's metadata.
SpotifyTrack(d) ==
    [source |-> "spotify", id |-> 0, title |-> "Song X",
     duration |-> d, spotify_url |-> "spotify"]

\* for entry in entries: if entry and 90 <= (entry.get("duration") or 0) <= 420:
\* the index at which the loop breaks, from index i on; 0 if it never does.
RECURSIVE FirstTypical(_, _)
FirstTypical(entries, i) ==
    IF i > Len(entries) THEN 0
    ELSE IF /\ entries[i] # <<>>
            /\ TypicalMin <= entries[i][1].duration
            /\ entries[i][1].duration <= TypicalMax
         THEN i
         ELSE FirstTypical(entries, i + 1)

\* best = entries[0], replaced by the entry at which the loop breaks
Best(entries) ==
    LET i == FirstTypical(entries, 1)
    IN  IF i = 0 THEN entries[1] ELSE entries[i]

\* _search_ytmusic.  yt is what yt-dlp's extract_info answers: it raises, or
\* it returns info with the list info["entries"].  best.get(...) on a best
\* that is None raises AttributeError.
search_ytmusic(yt) ==
    IF yt.raises THEN Raise("Exception")
    ELSE IF yt.entries = <<>> THEN Raise("LookupError")
    ELSE IF Best(yt.entries) = <<>> THEN Raise("AttributeError")
    ELSE Return(YtTrack(Best(yt.entries)[1]))

\* The try block of search.  sp is what the two spotdl runs answer:
\*   "timeout"  subprocess.TimeoutExpired,  "missing"  FileNotFoundError,
\*   "error"    any other exception,        "nourls"   no line with a URL,
\*   "nometa"   a URL but no JSON line of metadata (the block falls through),
\*   "meta"     a URL and its metadata, with duration sp.duration.
SpotdlOutcomes == {"timeout", "missing", "error", "nourls", "nometa", "meta"}

search_try(sp) ==
    CASE sp.outcome = "timeout" -> Raise("TimeoutExpired")
      [] sp.outcome = "missing" -> Raise("FileNotFoundError")
      [] sp.outcome = "error"   -> Raise("Exception")
      [] sp.outcome = "nourls"  -> Raise("LookupError")
      [] sp.outcome = "nometa"  -> Pending
      [] sp.outcome = "meta"    -> Return(SpotifyTrack(sp.duration))

\* except (subprocess.TimeoutExpired, FileNotFoundError, LookupError): pass
\* except Exception: logger.warning(...)
Caught == {"TimeoutExpired", "FileNotFoundError", "LookupError", "Exception"}

\* SongScraper.search: the try block returns, or whatever it raised is
\* caught and _search_ytmusic answers.
search(sp, yt) ==
    LET r == search_try(sp)
    IN  IF r.kind = "return" THEN r
        ELSE IF r.kind = "raise" /\ r.exc \notin Caught THEN r
        ELSE search_ytmusic(yt)

\* SongScraper.search_and_download, and the same two statements of
\* _do_search_download: metadata = search(query); download(metadata["url"]).
\* `download` is the track download is called with, <<>> if it is not called.
search_and_download(sp, yt) ==
    LET r == search(sp, yt)
    IN  [search |-> r, download |-> r.value]

\* The calls: their arguments and what the providers will answer.
YtAnswers ==
    {[raises |-> TRUE, entries |-> <<>>]}
        \cup {[raises |-> FALSE, entries |-> es] : es \in EntryLists}

SpotdlAnswers ==
    {[outcome |-> o, duration |-> 0] : o \in SpotdlOutcomes \ {"meta"}}
        \cup {[outcome |-> "meta", duration |-> d] : d \in Durations}

SearchCalls ==
    {[op |-> "search_ytmusic", sp |-> [outcome |-> "none", duration |-> 0],
      yt |-> y, out |-> Pending, download |-> <<>>] : y \in YtAnswers}
    \cup
    {[op |-> "search_and_download", sp |-> p, yt |-> y, out |-> Pending,
      download |-> <<>>] : p \in SpotdlAnswers, y \in YtAnswers}

SearchInit == Quiet /\ call \in SearchCalls

call_search_ytmusic ==
    /\ call.op = "search_ytmusic"
    /\ call.out = Pending
    /\ call' = [call EXCEPT !.out = search_ytmusic(call.yt)]
    /\ UNCHANGED server

call_search_and_download ==
    /\ call.op = "search_and_download"
    /\ call.out = Pending
    /\ call' = [call EXCEPT
                   !.out = search_and_download(call.sp, call.yt).search,
                   !.download = search_and_download(call.sp, call.yt).download]
    /\ UNCHANGED server

SearchNext == call_search_ytmusic \/ call_search_and_download

SearchSpec == SearchInit /\ [][SearchNext]_vars

\* ------------------------------------------------ claims about search
\* The entries of a list that are not None, in the list's order.
NonNull(entries) == SelectSeq(entries, LAMBDA e : e # <<>>)

\* The call `op` has been made and has returned or raised.
Called(op) == call.op = op /\ call.out # Pending

\* _search_ytmusic was handed a result list by its provider.
Ranked == Called("search_ytmusic") /\ ~call.yt.raises

\* The call returned the track built from an entry of the list.
ReturnedElementOf(entries) ==
    /\ call.out.kind = "return"
    /\ \E i \in 1..Len(entries) :
          entries[i] # <<>> /\ call.out.value[1] = YtTrack(entries[i][1])

\* C11: a resolved track whose duration exceeds MAX_DURATION (900 s) is
\* rejected before acquisition: search_and_download never calls download
\* with such a track, it ends in an error instead.
C11_LongTrackRejectedBeforeDownload ==
    Called("search_and_download") =>
        /\ call.download # <<>> => call.download[1].duration <= MAX_DURATION
        /\ (call.out.kind = "return"
              /\ call.out.value[1].duration > MAX_DURATION) => call.download = <<>>

\* The catalog provider (spotdl) gave search a track.
PrimaryFound == call.sp.outcome = "meta"

\* C12: search answers with the catalog provider's track when it has one
\* and with the media search otherwise; when both providers yield no
\* candidate it raises LookupError, and it raises LookupError in no case
\* where the media search returned at least one candidate.
C12_FallbackAndNotFound ==
    Called("search_and_download") =>
        /\ PrimaryFound => call.out = Return(SpotifyTrack(call.sp.duration))
        /\ (~PrimaryFound /\ call.out.kind = "return")
               => ReturnedElementOf(call.yt.entries)
        /\ (~PrimaryFound /\ ~call.yt.raises /\ NonNull(call.yt.entries) = <<>>)
               => call.out = Raise("LookupError")
        /\ call.out.exc = "LookupError"
               => (~PrimaryFound /\ NonNull(call.yt.entries) = <<>>)

\* C12 where the media search's list, when it has no candidate, has no
\* entry at all (no None entries).
C12_HoldsWithEmptyList ==
    Called("search_and_download") =>
        /\ PrimaryFound => call.out = Return(SpotifyTrack(call.sp.duration))
        /\ (~PrimaryFound /\ call.out.kind = "return")
               => ReturnedElementOf(call.yt.entries)
        /\ (~PrimaryFound /\ ~call.yt.raises /\ call.yt.entries = <<>>)
               => call.out = Raise("LookupError")
        /\ call.out.exc = "LookupError"
               => (~PrimaryFound /\ NonNull(call.yt.entries) = <<>>)

\* C13: for every list with at least one candidate the ranking step
\* returns (the track of) an element of the list, never a fabricated one.
\* (That two calls with the same list return the same element is what
\* search_ytmusic being a function of the list says.)
C13_RankReturnsInputElement ==
    (Ranked /\ NonNull(call.yt.entries) # <<>>)
        => ReturnedElementOf(call.yt.entries)

\* C13 for the lists without a None entry, and for every list on which
\* the step returns at all.
C13_ElementUnlessNone ==
    Ranked =>
        /\ (call.yt.entries # <<>> /\ NonNull(call.yt.entries) = call.yt.entries)
               => ReturnedElementOf(call.yt.entries)
        /\ call.out.kind = "return" => ReturnedElementOf(call.yt.entries)

\* The score of spec section 4.1: +3 for an audio-intent title, -10 for a
\* reject-pattern title, +1 for a duration in [90, 420], -5 above 900.
Score(e) ==
    (IF e.title = "Song X (Official Audio)" THEN 3 ELSE 0)
    + (IF e.title = "Song X (Live)" THEN 0 - 10 ELSE 0)
    + (IF TypicalMin <= e.duration /\ e.duration <= TypicalMax THEN 1 ELSE 0)
    + (IF e.duration > MAX_DURATION THEN 0 - 5 ELSE 0)

\* The first element of a stable descending sort by Score: no entry scores
\* higher, and every earlier entry scores lower.
Top(entries) ==
    CHOOSE i \in 1..Len(entries) :
        /\ \A j \in 1..Len(entries) : Score(entries[j][1]) <= Score(entries[i][1])
        /\ \A j \in 1..(i - 1) : Score(entries[j][1]) < Score(entries[i][1])

\* C14: the ranking step returns the candidate with the highest score,
\* the earliest of them on a tie (stated for lists without None entries).
C14_RankSelectsHighestScore ==
    (Ranked /\ call.yt.entries # <<>>
            /\ NonNull(call.yt.entries) = call.yt.entries)
        => call.out = Return(YtTrack(call.yt.entries[Top(call.yt.entries)][1]))

\* C15: the ranking step raises the no-candidates error (LookupError)
\* exactly when the list has no candidate, a list of None entries
\* included; with at least one candidate in the list it returns a
\* candidate and never raises, wherever the None entries sit.
C15_RaisesExactlyWhenNoCandidate ==
    Ranked =>
        /\ NonNull(call.yt.entries) = <<>> => call.out = Raise("LookupError")
        /\ NonNull(call.yt.entries) # <<>> => call.out.kind = "return"

\* ====================================================================
\* api_delete
\* ====================================================================
MaxParts == 2   \* path components of a requested filename are at most this many

\* A location is the sequence of names from the root; DOWNLOADS_DIR is
\* <server directory>/downloads.
DOWNLOADS_DIR == <<"app", "downloads">>

\* The directories that exist, and the places where a file may exist.
Dirs == {<<>>, <<"app">>, DOWNLOADS_DIR}

Places ==
    {DOWNLOADS_DIR \o <<"a.mp3">>, DOWNLOADS_DIR \o <<"b.txt">>,
     <<"app", "a.mp3">>, <<"a.mp3">>}

\* The components a requested filename is made of.
Parts == {"..", "app", "a.mp3", "b.txt"}

\* A filename of the request body: an absolute or a relative path.
Filenames ==
    {[absolute |-> a, parts |-> ps] :
        a \in BOOLEAN, ps \in UNION {[1..n -> Parts] : n \in 0..MaxParts}}

\* DOWNLOADS_DIR / filename: an absolute right operand replaces the left one.
Join(base, filename) ==
    IF filename.absolute THEN filename.parts ELSE base \o filename.parts

\* Path.suffix: the extension of the final component ("" for "..", and
\* for the directory itself when there is no component).
Suffix(path) ==
    IF path = <<>> THEN ""
    ELSE CASE path[Len(path)] = "a.mp3" -> ".mp3"
           [] path[Len(path)] = "b.txt" -> ".txt"
           [] OTHER -> ""

\* What the operating system finds at a path, walking it from directory
\* cur: ".." is the parent (of the root: the root), a name that is not
\* the last component must be a directory.
RECURSIVE Walk(_, _, _)
Walk(fs, cur, parts) ==
    IF parts = <<>> THEN [kind |-> "dir", at |-> cur]
    ELSE IF Head(parts) = ".."
         THEN Walk(fs, IF cur = <<>> THEN <<>> ELSE SubSeq(cur, 1, Len(cur) - 1),
                   Tail(parts))
         ELSE IF Append(cur, Head(parts)) \in Dirs
              THEN Walk(fs, Append(cur, Head(parts)), Tail(parts))
              ELSE IF Append(cur, Head(parts)) \in fs /\ Tail(parts) = <<>>
                   THEN [kind |-> "file", at |-> Append(cur, Head(parts))]
                   ELSE [kind |-> "none", at |-> <<>>]

\* api_delete: filepath = DOWNLOADS_DIR / filename;
\* if filepath.exists() and filepath.suffix == ".mp3": filepath.unlink()
api_delete(fs, filename) ==
    LET filepath == Join(DOWNLOADS_DIR, filename)
        found    == Walk(fs, <<>>, filepath)
    IN  IF found.kind # "none" /\ Suffix(filepath) = ".mp3"
        THEN [code |-> 200, fs |-> fs \ {found.at}]
        ELSE [code |-> 404, fs |-> fs]

DeleteCalls ==
    {[op |-> "delete", before |-> fs, fs |-> fs, filename |-> f, code |-> 0] :
        fs \in SUBSET Places, f \in Filenames}

DeleteInit == Quiet /\ call \in DeleteCalls

call_api_delete ==
    /\ call.op = "delete"
    /\ call.code = 0
    /\ call' = [call EXCEPT !.code = api_delete(call.fs, call.filename).code,
                            !.fs = api_delete(call.fs, call.filename).fs]
    /\ UNCHANGED server

DeleteNext == call_api_delete

DeleteSpec == DeleteInit /\ [][DeleteNext]_vars

\* --------------------------------------------- claims about api_delete
\* The place is in the output directory.
Inside(place) ==
    Len(place) > Len(DOWNLOADS_DIR)
        /\ SubSeq(place, 1, Len(DOWNLOADS_DIR)) = DOWNLOADS_DIR

\* The location a path names once its ".." components are resolved.
RECURSIVE Resolved(_, _)
Resolved(cur, parts) ==
    IF parts = <<>> THEN cur
    ELSE IF Head(parts) = ".."
         THEN Resolved(IF cur = <<>> THEN <<>> ELSE SubSeq(cur, 1, Len(cur) - 1),
                       Tail(parts))
         ELSE Resolved(Append(cur, Head(parts)), Tail(parts))

\* The requested name resolves to a place outside the output directory.
ResolvesOutside(filename) ==
    ~Inside(Resolved(<<>>, Join(DOWNLOADS_DIR, filename)))

Deleted == call.op = "delete" /\ call.code # 0

\* C16: a delete request whose name does not end in ".mp3", or whose path
\* resolves outside the output directory (".." components, an absolute
\* path), fails and leaves the file system unchanged; only files inside
\* the output directory are ever removed.
C16_DeleteConfinedToOutputDir ==
    Deleted =>
        /\ (Suffix(call.filename.parts) # ".mp3" \/ ResolvesOutside(call.filename))
               => (call.code = 404 /\ call.fs = call.before)
        /\ \A place \in call.before \ call.fs : Inside(place)

\* The part of C16 about the extension alone.
C16_OnlyMp3Removed ==
    Deleted =>
        /\ Suffix(call.filename.parts) # ".mp3"
               => (call.code = 404 /\ call.fs = call.before)
        /\ \A place \in call.before \ call.fs : Suffix(place) = ".mp3"

\* ------------------------------------- claims about the poll response
\* Every record of the registry has a result only in status done and an
\* error only in status error.
RegistryResultOnlyWhenDone ==
    \A id \in DOMAIN download_tasks :
        /\ download_tasks[id].result # <<>> => download_tasks[id].status = "done"
        /\ download_tasks[id].error # <<>> => download_tasks[id].status = "error"

\* The last poll response has a result only with status done and an error
\* only with status error.
ResponseResultOnlyWhenDone ==
    response.code = 200 =>
        /\ response.result # <<>> => response.status = "done"
        /\ response.error # <<>> => response.status = "error"

\* C17: in every registry state a task's result is present only when its
\* status is done and its error only when its status is error, and a poll
\* response contains a result only for status done and an error only for
\* status error.
C17_ResultOnlyDoneErrorOnlyError ==
    RegistryResultOnlyWhenDone /\ ResponseResultOnlyWhenDone

\* The last part of C17: a poll for an identifier that is not in the
\* registry answers 404 and changes no record.
C17_UnknownIdNotFound ==
    [][\A id \in Ids :
          (api_progress_get(id) /\ id \notin DOMAIN download_tasks)
              => (response'.code = 404 /\ download_tasks' = download_tasks)]_vars

\* ====================================================================
\* SongScraper._find_mp3
\* ====================================================================
MaxFiles == 3   \* files of the directory handed to _find_mp3 are at most this many
MaxMtime == 3   \* their st_mtime is 1..MaxMtime

Extensions == {".mp3", ".txt"}

\* The directories: every file has a name of its own, an extension and a
\* modification time (two files may have the same one).
Directories ==
    {{[name |-> n, ext |-> d[n][1].ext, mtime |-> d[n][1].mtime] :
          n \in {m \in 1..MaxFiles : d[m] # <<>>}} :
       d \in [1..MaxFiles ->
                {<<>>} \cup {<<[ext |-> e, mtime |-> m]>> :
                                e \in Extensions, m \in 1..MaxMtime}]}

\* directory.glob("*.mp3")
glob_mp3(directory) == {f \in directory : f.ext = ".mp3"}

\* max(files, key=st_mtime): a file no other file is newer than.  Which
\* one of several equally new files it is depends on the order in which
\* glob lists them, which is the operating system's.
MaxByMtime(files) == {f \in files : \A g \in files : g.mtime <= f.mtime}

\* A locator that looks at every file, whatever its extension.
find_any_file(directory) ==
    IF directory = {} THEN {<<>>}
    ELSE {<<f>> : f \in MaxByMtime(directory)}

\* _find_mp3: the values it can return (<<>> is None).  (find_mp3 is this
\* function on `dir`, which holds the .mp3 files only, oldest first.)
find_mp3_in(directory) ==
    IF glob_mp3(directory) = {} THEN {<<>>}
    ELSE {<<f>> : f \in MaxByMtime(glob_mp3(directory))}

LocateCalls ==
    {[op |-> "find_mp3", directory |-> d, returned |-> FALSE, out |-> <<>>] :
        d \in Directories}

LocateInit == Quiet /\ call \in LocateCalls

call_find_mp3 ==
    /\ call.op = "find_mp3"
    /\ ~call.returned
    /\ \E r \in find_mp3_in(call.directory) :
          call' = [call EXCEPT !.returned = TRUE, !.out = r]
    /\ UNCHANGED server

LocateNext == call_find_mp3

LocateSpec == LocateInit /\ [][LocateNext]_vars

\* --------------------------------------------- claims about _find_mp3
Located == call.op = "find_mp3" /\ call.returned

\* C18: the file locator returns, among the files with the expected
\* extension, the one with the most recent modification time (no other
\* .mp3 file is newer, and every .mp3 file with another modification time
\* is older), and None exactly when no file has that extension.
C18_LocatorReturnsNewestMp3 ==
    Located =>
        /\ call.out = <<>> <=> (\A f \in call.directory : f.ext # ".mp3")
        /\ call.out # <<>> =>
              /\ call.out[1] \in call.directory
              /\ call.out[1].ext = ".mp3"
              /\ \A g \in call.directory :
                    (g.ext = ".mp3" /\ g.mtime # call.out[1].mtime)
                        => g.mtime < call.out[1].mtime

\* Three .mp3 files with distinct modification times, and the locator
\* has returned the newest of them.
C18_Witness ==
    /\ Located
    /\ Cardinality(call.directory) = 3
    /\ \A f \in call.directory : f.ext = ".mp3"
    /\ \A f, g \in call.directory : f # g => f.mtime # g.mtime
    /\ call.out # <<>>
    /\ call.out[1].mtime = MaxMtime

\* ====================================================================
\* SongScraper.search_multi
\* ====================================================================
MaxLimit == 1   \* the limit argument of search_multi is 0..MaxLimit

\* The dict search_multi appends for an entry.
Preview(e) ==
    [title |-> e.title, artist |-> "", album |-> "", duration |-> e.duration,
     url |-> e.id]

\* for entry in entries: if entry is None: continue; results.append({...})
RECURSIVE Collect(_, _)
Collect(entries, results) ==
    IF entries = <<>> THEN results
    ELSE IF Head(entries) = <<>>
         THEN Collect(Tail(entries), results)
         ELSE Collect(Tail(entries), Append(results, Preview(Head(entries)[1])))

\* results[:limit], for limit >= 0
Slice(results, limit) ==
    SubSeq(results, 1, IF limit < Len(results) THEN limit ELSE Len(results))

\* A search_multi that returns everything it collected.
search_multi_untruncated(yt, limit) ==
    IF yt.raises THEN Return(<<>>)
    ELSE Return(Collect(yt.entries, <<>>))

\* search_multi: results = []; the try block fills it; whatever is raised
\* in the block is caught and logged; return results[:limit].
search_multi(yt, limit) ==
    IF yt.raises THEN Return(Slice(<<>>, limit))
    ELSE Return(Slice(Collect(yt.entries, <<>>), limit))

MultiCalls ==
    {[op |-> "search_multi", yt |-> y, limit |-> l, out |-> Pending] :
        y \in YtAnswers, l \in 0..MaxLimit}

MultiInit == Quiet /\ call \in MultiCalls

call_search_multi ==
    /\ call.op = "search_multi"
    /\ call.out = Pending
    /\ call' = [call EXCEPT !.out = search_multi(call.yt, call.limit)]
    /\ UNCHANGED server

MultiNext == call_search_multi

MultiSpec == MultiInit /\ [][MultiNext]_vars

\* ------------------------------------------- claims about search_multi
\* C19: search_multi returns at most `limit` candidates: the first `limit`
\* of the provider's entries that are not None, in the provider's order
\* (no ranking), and an empty list, not an exception, when the provider
\* call fails.
C19_PreviewTruncatedInProviderOrder ==
    Called("search_multi") =>
        /\ call.out.kind = "return"
        /\ call.yt.raises => call.out.value[1] = <<>>
        /\ ~call.yt.raises =>
              LET given == NonNull(call.yt.entries)
                  got   == call.out.value[1]
              IN  /\ Len(got) <= call.limit
                  /\ Len(got) = call.limit \/ Len(got) = Len(given)
                  /\ Len(got) <= Len(given)
                  /\ \A i \in 1..Len(got) :
                        /\ got[i].title = given[i][1].title
                        /\ got[i].duration = given[i][1].duration
                        /\ got[i].url = given[i][1].id

\* The provider returned more candidates than the limit, the second
\* scoring higher than the first, and search_multi returned the first.
C19_Witness ==
    /\ Called("search_multi")
    /\ ~call.yt.raises
    /\ call.limit = 1
    /\ Len(call.yt.entries) = 2
    /\ NonNull(call.yt.entries) = call.yt.entries
    /\ Score(call.yt.entries[1][1]) < Score(call.yt.entries[2][1])
    /\ Len(call.out.value[1]) = 1
    /\ call.out.value[1][1].url = 1

\* ------------------------------------- claims about the progress hook
\* Request t's hook, called with a "downloading" event, returns.
HookReturns(t) ==
    th[t].pc \in {"sp_hook_b", "yt_hook_b"} /\ th'[t].pc # th[t].pc

\* C20: a progress update with a total > 0 sets the record's percent to
\* floor(downloaded / total * 100) and its status to downloading; an
\* update with no positive total leaves the stored percent unchanged.
C20_PercentFromTotalElseUnchanged ==
    [][\A t \in Requests :
          HookReturns(t) =>
              /\ Record(t)'.status = "downloading"
              /\ IF th[t].total > 0
                 THEN Record(t)'.percent
                          = (th[t].downloaded * 100) \div th[t].total
                 ELSE Record(t)'.percent = Record(t).percent]_vars

\* The first half of C20, and what the code does with no positive total.
C20_PercentFromTotalElseZero ==
    [][\A t \in Requests :
          HookReturns(t) =>
              /\ Record(t)'.status = "downloading"
              /\ IF th[t].total > 0
                 THEN Record(t)'.percent
                          = (th[t].downloaded * 100) \div th[t].total
                 ELSE Record(t)'.percent = 0]_vars

\* -------------------------------------------- claims about download()
\* The thread is inside _download_spotdl / inside _download_ytdlp.
CatalogPcs ==
    {"sp_before", "sp_hook", "sp_hook_b", "sp_run", "sp_fin", "sp_fin_b",
     "sp_locate"}

MediaPcs == {"yt_run", "yt_hook_b", "yt_fin_b", "yt_post", "yt_find"}

CreatedFresh(t) ==
    (th[t].pc = "new" /\ th'[t].pc # "new") =>
        /\ Record(t)'.percent = 0
        /\ Record(t)'.result = <<>>
        /\ Record(t)'.error = <<>>
        /\ Record(t)'.status
              = IF th'[t].kind = "search" THEN "searching" ELSE "downloading"

\* While request t's resolver runs, and after it failed with no track
\* until the failure is stored, the task's status is searching; the status
\* goes from searching to downloading only in the step in which the
\* resolver returns a track to t's thread.
SearchingUntilResolved(t) ==
    /\ th'[t].pc = "search" => Record(t)'.status = "searching"
    /\ (th'[t].pc = "err" /\ th'[t].exc = "LookupError")
           => Record(t)'.status = "searching"
    /\ (Started(t) /\ th[t].kind = "search"
          /\ Record(t).status = "searching" /\ Record(t)'.status = "downloading")
           => (th[t].pc = "search" /\ th'[t].pc \in {"sp_before", "yt_run"})
    /\ (Started(t) /\ th[t].pc = "err" /\ th[t].exc = "LookupError"
          /\ Record(t)'.status # Record(t).status)
           => Record(t)'.status = "error"

\* C22: a task is created with percent 0, no result and no error, in
\* status searching when a query must be resolved first and in status
\* downloading when a URL was supplied; a search-download task leaves
\* searching for downloading only after the resolver returned a track, and
\* goes from searching straight to error when resolution fails.
C22_CreatedThenSearchingUntilResolved ==
    [][\A t \in Requests : CreatedFresh(t) /\ SearchingUntilResolved(t)]_vars

\* C22 for the tasks whose identifier no other request was given.
C22_WhileIdUnshared ==
    [][\A t \in Requests :
          /\ CreatedFresh(t)
          /\ (Started(t)' /\ ~IdShared(th[t].task_id)')
                 => SearchingUntilResolved(t)]_vars

\* ---------------------------------------------- claims about the lock
\* The thread is between two statements of a `with progress_lock:` block:
\* of the progress hook, of the completion, of the except clause.
LockedPcs == {"sp_hook_b", "sp_fin_b", "yt_hook_b", "yt_fin_b",
              "done_b", "done_c", "err_b"}

\* The thread is inside search() or download() and not inside the hook:
\* a resolver or provider call is running or about to.
BlockingPcs == ({"search"} \cup CatalogPcs \cup MediaPcs) \ LockedPcs

\* C23: the registry lock is held only between the statements of one
\* registry update, never while a resolver or provider call runs, and it
\* is never requested by the thread that holds it: whoever holds the lock
\* can take its next step, so no thread waits on the lock for the length
\* of another task's download.
C23_LockNeverSpansBlockingCall ==
    /\ \A t \in Requests :
          /\ th[t].pc \in BlockingPcs => progress_lock # t
          /\ progress_lock = t <=> th[t].pc \in LockedPcs
    /\ \A t \in Requests : progress_lock = t => ENABLED Thread(t)

\* One thread is inside the progress hook, holding the lock, while another
\* thread's provider call runs.
C23_Witness ==
    \E a, b \in Requests :
        /\ a # b
        /\ progress_lock = a
        /\ th[a].pc = "yt_hook_b"
        /\ th[b].pc \in {"sp_run", "yt_run", "yt_post"}

\* The lock, once taken, is released again (under FairSpec).
C23_LockAlwaysReleased == (progress_lock # 0) ~> (progress_lock = 0)

\* ------------------------------------------- claims about the percent
\* C24: in every registry state each task's percent is an integer from 0
\* to 100, whatever progress events arrive, also events whose
\* downloaded_bytes exceeds the total or the total estimate.
C24_PercentWithinRange ==
    \A id \in DOMAIN download_tasks :
        download_tasks[id].percent \in 0..100

\* C24 for events whose downloaded_bytes never exceeds their total: the
\* hook has computed no pct above 100.
C24_WithinRangeUnlessOverTotal ==
    (\A t \in Requests : th[t].total > 0 => th[t].downloaded <= th[t].total)
        => \A t \in Requests : th[t].pct \in 0..100

====
